---- MODULE Spec2Model ----
(***************************************************************************)
(* Beat-detection engine of src/unnamed/part_001 (second variant, lines    *)
(* 297-673: detectBeatsFromVideo with constant-BPM mode).                  *)
(*                                                                         *)
(* Units.  Media time is counted in eighths of a second, so 0.25 s = 2,    *)
(* 2.0 s = 16 and 60 s = 480.  Linear amplitudes are counted in            *)
(* hundredths (10^(dB/20) * 100), band weights in tenths.  Every           *)
(* comparison of the source is homogeneous in these scales and is written  *)
(* here cross-multiplied, so that the arithmetic stays exact on integers.  *)
(* A configuration's minBeatSeparation is counted in fortieths of a second  *)
(* (0.35 s = 14, 0.375 s = 15), so that elapsed * 5 is compared with it.    *)
(* A BPM value is the exact fraction n/d, kept as the record [n, d].       *)
(* A nullable value of the source is a sequence of length 0 (null) or 1.   *)
(***************************************************************************)
EXTENDS Integers, Sequences, FiniteSets, TLC

VARIABLES
    cfg,                \* the merged configuration (never mutated)
    fluxHistory,        \* number[]
    energyHistory,      \* number[]
    bassEnergyHistory,  \* number[]
    prevFreqData,       \* Float32Array(binCount)
    prevPrevFreqData,   \* Float32Array(binCount)
    lastBeatTime,       \* number, -Infinity before the first beat
    beatTimes,          \* number[]
    detectedBPM,        \* number | null
    bpmLocked,          \* boolean
    nextScheduledBeat,  \* number | null
    bpmSyncStartTime,   \* number | null
    rafPending,         \* the frame request whose id is held in raf is pending
    srcConnected,       \* src has not been disconnected
    analyserConnected,  \* analyser has not been disconnected
    ctxOpen,            \* audioCtx has not been closed
    stopCalls,          \* calls of the returned stop function so far
    stopThrew,          \* some call of the stop function raised
    time,               \* videoEl.currentTime sampled by the last tick
    monotone,           \* the sampled media times never decreased so far
    emitted,            \* the onBeat call made by the last step, or none
    prevCallTime,       \* timestamp of the latest onBeat call before the last step
    lockedBeats,        \* number of onBeat calls made in constant-BPM mode
    confirmedBeats,     \* number of onBeat calls made in detection mode
    probe,              \* result of a function applied on its own, or none
    config,             \* the caller's config argument given to the merge, or none
    started,            \* detectBeatsFromVideo is pending, was rejected or has returned
    startFailed,        \* the step of detectBeatsFromVideo that raised, or "none"
    paused,             \* videoEl.paused || videoEl.ended when the last frame ran
    stopDetectRef,      \* app: stopDetectRef.current, the stop handle of a session or none
    handlers,           \* app: position of each call of handleStart
    sessions,           \* app: each call of detectBeatsFromVideo made by handleStart
    videoUrl,           \* app: the video loaded, counted from 0
    mounted             \* app: the component is mounted

engineVars == <<fluxHistory, energyHistory, bassEnergyHistory, prevFreqData,
                prevPrevFreqData, lastBeatTime, beatTimes, detectedBPM,
                bpmLocked, nextScheduledBeat, bpmSyncStartTime, rafPending>>
resourceVars == <<srcConnected, analyserConnected, ctxOpen, stopCalls, stopThrew>>
observerVars == <<time, monotone, emitted, prevCallTime, lockedBeats, confirmedBeats>>
lifecycleVars == <<config, started, startFailed, paused>>
appVars == <<stopDetectRef, handlers, sessions, videoUrl, mounted>>
sessionVars == <<cfg, engineVars, resourceVars, observerVars, probe, lifecycleVars>>
vars == <<cfg, engineVars, resourceVars, observerVars, probe, lifecycleVars, appVars>>

----------------------------------------------------------------------------
(* Bounds of the model *)

MaxTick == 7
MaxStopCalls == 2

\* media times a tick can sample: multiples of 0.25 s
TickTimes == {2 * j : j \in 0..MaxTick}

\* spectral levels (dB) a frame can have; a frame has the same level in each bin
Levels == {-40, -20}

----------------------------------------------------------------------------
(* Numbers of the source, in the units above *)

NegInfinity == -1000000
Infinity == 1000000
Null == <<>>
Some(v) == <<v>>

BinCount == 4
MinValidInterval == 2
MaxValidInterval == 16
SixtySeconds == 480
LockedIntensity == [n |-> 8, d |-> 10]

\* one bin per band; the two highest bands lie beyond binCount
Ranges ==
    << [range |-> <<0, 0>>, weight |-> 15, isBass |-> TRUE],
       [range |-> <<1, 1>>, weight |-> 20, isBass |-> TRUE],
       [range |-> <<2, 2>>, weight |-> 10, isBass |-> FALSE],
       [range |-> <<3, 3>>, weight |-> 14, isBass |-> FALSE],
       [range |-> <<4, 4>>, weight |-> 8,  isBass |-> FALSE],
       [range |-> <<5, 5>>, weight |-> 5,  isBass |-> FALSE] >>

SubBassRange == Ranges[1].range
BassRange == Ranges[2].range
MidRange == Ranges[4].range

\* configurations a session is started with: a dense one (no minimum
\* separation) and a sparse one (0.375 s, lock attempted from the third beat)
BaseConfig(minBeatSeparation, beatsToAnalyze) ==
    [ minBeatSeparation |-> minBeatSeparation,
      energyThreshold   |-> 14,
      historySize       |-> 5,
      useOnsetDetection |-> TRUE,
      useEnergySpikes   |-> TRUE,
      beatsToAnalyze    |-> beatsToAnalyze,
      bpmSyncEnabled    |-> TRUE ]

Configs == {BaseConfig(0, 4), BaseConfig(15, 3)}

----------------------------------------------------------------------------
(* The configuration merge *)

\* DEFAULT_CONFIG without the band ranges and weights (see Ranges)
DEFAULT_CONFIG ==
    [ fftSize           |-> 2048,
      minBeatSeparation |-> 14,
      energyThreshold   |-> 14,
      historySize       |-> 50,
      useOnsetDetection |-> TRUE,
      useEnergySpikes   |-> TRUE,
      sensitivityMode   |-> "medium",
      beatsToAnalyze    |-> 6,
      bpmSyncEnabled    |-> TRUE ]

SENSITIVITY_PRESETS ==
    [ low    |-> [energyThreshold |-> 18, minBeatSeparation |-> 20],
      medium |-> [energyThreshold |-> 14, minBeatSeparation |-> 14],
      high   |-> [energyThreshold |-> 11, minBeatSeparation |-> 10] ]

\* a variant in which the preset always wins over the caller's values
C17Mut_MergeConfig(given) ==
    LET baseCfg == [k \in DOMAIN DEFAULT_CONFIG |->
                      IF k \in DOMAIN given THEN given[k] ELSE DEFAULT_CONFIG[k]]
        sensitivitySettings == SENSITIVITY_PRESETS[baseCfg["sensitivityMode"]]
    IN  [k \in DOMAIN DEFAULT_CONFIG |->
           IF k = "energyThreshold" THEN sensitivitySettings.energyThreshold
           ELSE IF k = "minBeatSeparation" THEN sensitivitySettings.minBeatSeparation
           ELSE baseCfg[k]]

\* lines 363-371; given is the caller's Partial<BeatDetectorConfig>, a
\* function on the option names the caller gave
MergeConfig(given) ==
    LET baseCfg == [k \in DOMAIN DEFAULT_CONFIG |->
                      IF k \in DOMAIN given THEN given[k] ELSE DEFAULT_CONFIG[k]]
        sensitivitySettings == SENSITIVITY_PRESETS[baseCfg["sensitivityMode"]]
    IN  [k \in DOMAIN DEFAULT_CONFIG |->
           IF k = "energyThreshold"
           THEN IF k \in DOMAIN given THEN given[k] ELSE sensitivitySettings.energyThreshold
           ELSE IF k = "minBeatSeparation"
           THEN IF k \in DOMAIN given THEN given[k] ELSE sensitivitySettings.minBeatSeparation
           ELSE baseCfg[k]]

----------------------------------------------------------------------------
(* Helpers *)

Bins == 0..(BinCount - 1)
Frame(level) == [i \in Bins |-> level]
Frames == {Frame(l) : l \in Levels}
ZeroFrame == Frame(0)

Sorted(s) == SortSeq(s, LAMBDA a, b : a < b)
Abs(x) == IF x < 0 THEN -x ELSE x
Max2(a, b) == IF a > b THEN a ELSE b

RECURSIVE MaxOf(_)
MaxOf(s) == IF Len(s) = 1 THEN s[1] ELSE Max2(s[1], MaxOf(Tail(s)))

\* exact square root (the model's frames give perfect squares)
RECURSIVE SqrtFrom(_, _)
SqrtFrom(r, x) == IF r * r >= x THEN r ELSE SqrtFrom(r + 1, x)
Sqrt(x) == LET r == SqrtFrom(0, x) IN CASE r * r = x -> r

\* the last n elements of s (Array.slice(-n))
LastN(s, n) == IF Len(s) <= n THEN s ELSE SubSeq(s, Len(s) - n + 1, Len(s))

\* a variant that rejects the new value once the buffer holds cap values
C29Mut_PushCapped(s, v, cap) == IF Len(s) >= cap THEN s ELSE Append(s, v)

\* a variant that shifts only when longer than cap + 1
C12Mut_PushCapped(s, v, cap) ==
    LET t == Append(s, v) IN IF Len(t) > cap + 1 THEN Tail(t) ELSE t

\* push then a single shift when longer than cap
PushCapped(s, v, cap) ==
    LET t == Append(s, v) IN IF Len(t) > cap THEN Tail(t) ELSE t

\* a variant that drops the newest elements instead of the oldest
C13Mut_ShiftWhile(s, cap) == IF Len(s) > cap THEN SubSeq(s, 1, cap) ELSE s

\* push then shift while longer than cap
RECURSIVE ShiftWhile(_, _)
ShiftWhile(s, cap) == IF Len(s) > cap /\ Len(s) > 0 THEN ShiftWhile(Tail(s), cap) ELSE s

----------------------------------------------------------------------------
(* Spectral computations *)

\* Math.pow(10, db / 20), in hundredths
dbToLinear(db) ==
    CASE db = -40 -> 1
      [] db = -20 -> 10
      [] db = 0   -> 100

\* "for (i = startBin; i <= endBin && i < binCount; i++)" visits
\* startBin .. LastBin(endBin)
LastBin(endBin) == IF endBin < BinCount THEN endBin ELSE BinCount - 1

\* the sum of f[i] for i = lo .. hi
RECURSIVE SumFromTo(_, _, _)
SumFromTo(lo, hi, f) == IF lo > hi THEN 0 ELSE f[lo] + SumFromTo(lo + 1, hi, f)

getEnergyInRange(freqData, startBin, endBin) ==
    LET amplitude == [i \in Bins |-> dbToLinear(freqData[i])]
        energy == SumFromTo(startBin, LastBin(endBin),
                            [i \in Bins |-> amplitude[i] * amplitude[i]])
        count == IF LastBin(endBin) >= startBin THEN LastBin(endBin) - startBin + 1 ELSE 0
    IN  IF count > 0 THEN Sqrt(energy \div count) ELSE 0

calculateBandFlux(freqData, prevData, startBin, endBin) ==
    LET sq == [i \in Bins |->
                 LET cur == Max2(0, dbToLinear(freqData[i]))
                     prev == Max2(0, dbToLinear(prevData[i]))
                     diff == cur - prev
                 IN  IF diff > 0 THEN diff * diff ELSE 0]
    IN  Sqrt(SumFromTo(startBin, LastBin(endBin), sq))

\* { flux, bassFlux, intensity }, each in thousandths
calculateSpectralFlux(freqData, prevData) ==
    LET bandFlux == [b \in 1..Len(Ranges) |->
                       calculateBandFlux(freqData, prevData, Ranges[b].range[1], Ranges[b].range[2])
                         * Ranges[b].weight]
        bandEnergy == [b \in 1..Len(Ranges) |->
                       getEnergyInRange(freqData, Ranges[b].range[1], Ranges[b].range[2])
                         * Ranges[b].weight]
    IN  [ flux      |-> SumFromTo(1, Len(Ranges), bandFlux),
          bassFlux  |-> SumFromTo(1, Len(Ranges),
                                  [b \in 1..Len(Ranges) |->
                                     IF Ranges[b].isBass THEN bandFlux[b] ELSE 0]),
          intensity |-> SumFromTo(1, Len(Ranges), bandEnergy) ]

detectOnset(c, freqData, prevData, prevPrevData) ==
    IF ~c.useOnsetDetection THEN FALSE
    ELSE LET lo == BassRange[1]
             hi == LastBin(MidRange[2])
             currentEnergy == SumFromTo(lo, hi, [i \in Bins |-> dbToLinear(freqData[i])])
             prevEnergy == SumFromTo(lo, hi, [i \in Bins |-> dbToLinear(prevData[i])])
             prevPrevEnergy == SumFromTo(lo, hi, [i \in Bins |-> dbToLinear(prevPrevData[i])])
         IN  /\ prevEnergy * 10 > prevPrevEnergy * 11
             /\ prevEnergy * 100 > currentEnergy * 95

\* sorted[Math.floor(sorted.length / 2)]
MiddleOf(s) == Sorted(s)[(Len(s) \div 2) + 1]

\* median + energyThreshold * 1.4826 * mad, or Infinity below 5 samples.
\* The finite value is kept times 100000 (energyThreshold is in tenths).
ThresholdScale == 100000
MadScale == 14826
getAdaptiveThreshold(c, history) ==
    IF Len(history) < 5 THEN [finite |-> FALSE, value |-> 0]
    ELSE LET median == MiddleOf(history)
             deviations == [i \in 1..Len(history) |-> Abs(history[i] - median)]
             mad == MiddleOf(deviations)
             robustStdDev == mad * MadScale
         IN  [finite |-> TRUE,
              value |-> median * ThresholdScale + c.energyThreshold * robustStdDev]

\* a variant that compares with >= instead of >
C11Mut_Exceeds(value, threshold, factor) ==
    IF ~threshold.finite THEN FALSE
    ELSE value * ThresholdScale * 10 >= threshold.value * factor

\* value > threshold * factor, factor in tenths
Exceeds(value, threshold, factor) ==
    IF ~threshold.finite THEN FALSE
    ELSE value * ThresholdScale * 10 > threshold.value * factor

isLocalMaximum(value, history, windowSize) ==
    IF Len(history) < windowSize THEN FALSE
    ELSE value * 100 >= MaxOf(LastN(history, windowSize)) * 98

----------------------------------------------------------------------------
(* Tempo estimation *)

\* beatTimes[i] - beatTimes[i-1] for i = 1 .. length-1
Intervals(bt) == [i \in 1..(Len(bt) - 1) |-> bt[i + 1] - bt[i]]

IsValidInterval(i) == i >= MinValidInterval /\ i <= MaxValidInterval

\* comparisons of the fraction bpm = n/d with a whole number of BPM
BpmGeq(bpm, x) == bpm.n >= x * bpm.d
BpmLeq(bpm, x) == bpm.n <= x * bpm.d
BpmGt(bpm, x) == bpm.n > x * bpm.d
BpmLt(bpm, x) == bpm.n < x * bpm.d

\* a variant that asks for four valid intervals instead of three
C7Mut_calculateBPM(c, bt) ==
    IF Len(bt) < c.beatsToAnalyze THEN Null
    ELSE LET validIntervals == SelectSeq(Intervals(bt), IsValidInterval)
         IN  IF Len(validIntervals) < 4 THEN Null
             ELSE LET medianInterval == MiddleOf(validIntervals)
                      bpm == [n |-> SixtySeconds, d |-> medianInterval]
                  IN  IF BpmGeq(bpm, 60) /\ BpmLeq(bpm, 200) THEN Some(bpm)
                      ELSE IF BpmGt(bpm, 200) /\ BpmLeq(bpm, 400)
                           THEN Some([n |-> bpm.n, d |-> 2 * bpm.d])
                      ELSE IF BpmGeq(bpm, 30) /\ BpmLt(bpm, 60)
                           THEN Some([n |-> 2 * bpm.n, d |-> bpm.d])
                      ELSE Null

\* a variant that returns the double-time tempo as it is
C32Mut_calculateBPM(c, bt) ==
    IF Len(bt) < c.beatsToAnalyze THEN Null
    ELSE LET validIntervals == SelectSeq(Intervals(bt), IsValidInterval)
         IN  IF Len(validIntervals) < 3 THEN Null
             ELSE LET medianInterval == MiddleOf(validIntervals)
                      bpm == [n |-> SixtySeconds, d |-> medianInterval]
                  IN  IF BpmGeq(bpm, 60) /\ BpmLeq(bpm, 400) THEN Some(bpm)
                      ELSE IF BpmGeq(bpm, 30) /\ BpmLt(bpm, 60)
                           THEN Some([n |-> 2 * bpm.n, d |-> bpm.d])
                      ELSE Null

calculateBPM(c, bt) ==
    IF Len(bt) < c.beatsToAnalyze THEN Null
    ELSE LET validIntervals == SelectSeq(Intervals(bt), IsValidInterval)
         IN  IF Len(validIntervals) < 3 THEN Null
             ELSE LET medianInterval == MiddleOf(validIntervals)
                      bpm == [n |-> SixtySeconds, d |-> medianInterval]
                  IN  IF BpmGeq(bpm, 60) /\ BpmLeq(bpm, 200) THEN Some(bpm)
                      ELSE IF BpmGt(bpm, 200) /\ BpmLeq(bpm, 400)
                           THEN Some([n |-> bpm.n, d |-> 2 * bpm.d])
                      ELSE IF BpmGeq(bpm, 30) /\ BpmLt(bpm, 60)
                           THEN Some([n |-> 2 * bpm.n, d |-> bpm.d])
                      ELSE Null

\* 60 / detectedBPM, in eighths of a second
BeatInterval(bpm) == (SixtySeconds * bpm.d) \div bpm.n

----------------------------------------------------------------------------
(* One animation frame *)

\* time - lastBeatTime
TimeSince(t, last) == IF last = NegInfinity THEN Infinity ELSE t - last

\* a variant without the try/catch: a throwing callback ends the handler
C4Mut_GuardedCall(outcome) == IF outcome = "throws" THEN "abort" ELSE "continue"

\* what the guarded onBeat call leaves behind: the handler goes on
\* ("continue") whether the callback returns or throws
GuardedCall(outcome) == "continue"

\* the condition of the constant-BPM branch
ConstantBpmMode(c, s) ==
    c.bpmSyncEnabled /\ s.bpmLocked /\ s.detectedBPM # Null /\ s.nextScheduledBeat # Null

\* a variant that fires at exactly minBeatSeparation after the previous beat
C33Mut_BeatFires(c, votes, timeSinceLastBeat) ==
    /\ votes >= 1
    /\ timeSinceLastBeat * 5 >= c.minBeatSeparation
    /\ \/ votes >= 2
       \/ votes = 1 /\ timeSinceLastBeat * 10 > c.minBeatSeparation * 3

\* a variant without the stricter guard on a lone vote
C1Mut_BeatFires(c, votes, timeSinceLastBeat) ==
    /\ votes >= 1
    /\ timeSinceLastBeat * 5 > c.minBeatSeparation

\* a variant whose stricter guard on a lone vote is 2 x minBeatSeparation
C20Mut_BeatFires(c, votes, timeSinceLastBeat) ==
    /\ votes >= 1
    /\ timeSinceLastBeat * 5 > c.minBeatSeparation
    /\ \/ votes >= 2
       \/ votes = 1 /\ timeSinceLastBeat * 5 > c.minBeatSeparation * 2

\* the two nested conditions of detection mode
BeatFires(c, votes, timeSinceLastBeat) ==
    /\ votes >= 1
    /\ timeSinceLastBeat * 5 > c.minBeatSeparation
    /\ \/ votes >= 2
       \/ votes = 1 /\ timeSinceLastBeat * 10 > c.minBeatSeparation * 3

\* a variant that reports the full intensity for every detected beat
C18Mut_BeatIntensity(flux, fh) == [n |-> 1, d |-> 1]

\* flux / (Math.max(...fluxHistory) || 1) clamped to [0, 1], as a fraction
BeatIntensity(flux, fh) ==
    LET ratio == IF Len(fh) > 0
                 THEN [n |-> flux, d |-> IF MaxOf(fh) # 0 THEN MaxOf(fh) ELSE 1000]
                 ELSE [n |-> 1, d |-> 2]
    IN  IF ratio.n > ratio.d THEN [n |-> 1, d |-> 1]
        ELSE IF ratio.n < 0 THEN [n |-> 0, d |-> 1]
        ELSE ratio

\* a variant that shifts the frames but requests no further frame
C37Mut_ShiftAndRequest(s, freqData) ==
    [s EXCEPT !.prevPrevFreqData = s.prevFreqData,
              !.prevFreqData = freqData]

\* the end of every path through analyze
ShiftAndRequest(s, freqData) ==
    [s EXCEPT !.prevPrevFreqData = s.prevFreqData,
              !.prevFreqData = freqData,
              !.rafPending = TRUE]

\* a variant that attempts the lock without looking at bpmSyncEnabled
C19Mut_TryLock(c, s, t) ==
    IF ~s.bpmLocked /\ Len(s.beatTimes) >= c.beatsToAnalyze
    THEN LET calculatedBPM == calculateBPM(c, s.beatTimes)
         IN  IF calculatedBPM # Null
             THEN [s EXCEPT !.detectedBPM = calculatedBPM,
                            !.bpmLocked = TRUE,
                            !.bpmSyncStartTime = Some(t),
                            !.nextScheduledBeat = Some(t + BeatInterval(calculatedBPM[1]))]
             ELSE s
    ELSE s

\* a variant that attempts the lock only when the buffer holds exactly
\* beatsToAnalyze beats
C24Mut_TryLock(c, s, t) ==
    IF c.bpmSyncEnabled /\ ~s.bpmLocked /\ Len(s.beatTimes) = c.beatsToAnalyze
    THEN LET calculatedBPM == calculateBPM(c, s.beatTimes)
         IN  IF calculatedBPM # Null
             THEN [s EXCEPT !.detectedBPM = calculatedBPM,
                            !.bpmLocked = TRUE,
                            !.bpmSyncStartTime = Some(t),
                            !.nextScheduledBeat = Some(t + BeatInterval(calculatedBPM[1]))]
             ELSE s
    ELSE s

\* a variant that attempts the lock from the first beat and falls back on
\* 120 BPM when calculateBPM gives no tempo
C25Mut_TryLock(c, s, t) ==
    IF c.bpmSyncEnabled /\ ~s.bpmLocked
    THEN LET calculatedBPM == calculateBPM(c, s.beatTimes)
             bpm == IF calculatedBPM # Null THEN calculatedBPM
                    ELSE Some([n |-> 120, d |-> 1])
         IN  [s EXCEPT !.detectedBPM = bpm,
                       !.bpmLocked = TRUE,
                       !.bpmSyncStartTime = Some(t),
                       !.nextScheduledBeat = Some(t + BeatInterval(bpm[1]))]
    ELSE s

\* a variant that schedules the first beat at the lock time itself
C34Mut_TryLock(c, s, t) ==
    IF c.bpmSyncEnabled /\ ~s.bpmLocked /\ Len(s.beatTimes) >= c.beatsToAnalyze
    THEN LET calculatedBPM == calculateBPM(c, s.beatTimes)
         IN  IF calculatedBPM # Null
             THEN [s EXCEPT !.detectedBPM = calculatedBPM,
                            !.bpmLocked = TRUE,
                            !.bpmSyncStartTime = Some(t),
                            !.nextScheduledBeat = Some(t)]
             ELSE s
    ELSE s

\* a variant that sets the flag and the tempo but schedules no beat
C31Mut_TryLock(c, s, t) ==
    IF c.bpmSyncEnabled /\ ~s.bpmLocked /\ Len(s.beatTimes) >= c.beatsToAnalyze
    THEN LET calculatedBPM == calculateBPM(c, s.beatTimes)
         IN  IF calculatedBPM # Null
             THEN [s EXCEPT !.detectedBPM = calculatedBPM,
                            !.bpmLocked = TRUE,
                            !.bpmSyncStartTime = Some(t)]
             ELSE s
    ELSE s

\* lines 631-644
TryLock(c, s, t) ==
    IF c.bpmSyncEnabled /\ ~s.bpmLocked /\ Len(s.beatTimes) >= c.beatsToAnalyze
    THEN LET calculatedBPM == calculateBPM(c, s.beatTimes)
         IN  IF calculatedBPM # Null
             THEN [s EXCEPT !.detectedBPM = calculatedBPM,
                            !.bpmLocked = TRUE,
                            !.bpmSyncStartTime = Some(t),
                            !.nextScheduledBeat = Some(t + BeatInterval(calculatedBPM[1]))]
             ELSE s
    ELSE s

\* a variant that fires only on a frame sampled exactly at the scheduled time
C36Mut_ScheduledBranch(c, s, freqData, t, outcome) ==
    IF t = s.nextScheduledBeat[1]
    THEN LET beatInterval == BeatInterval(s.detectedBPM[1])
             fired == [s EXCEPT !.lastBeatTime = s.nextScheduledBeat[1],
                                !.nextScheduledBeat = Some(s.nextScheduledBeat[1] + beatInterval)]
             call == Some([t |-> t, intensity |-> LockedIntensity, mode |-> "scheduled",
                           votes |-> 0, outcome |-> outcome])
         IN  IF GuardedCall(outcome) = "continue"
             THEN [state |-> ShiftAndRequest(fired, freqData), call |-> call]
             ELSE [state |-> fired, call |-> call]
    ELSE [state |-> ShiftAndRequest(s, freqData), call |-> Null]

\* a variant that fires one beat interval ahead of the schedule
C35Mut_ScheduledBranch(c, s, freqData, t, outcome) ==
    IF t + BeatInterval(s.detectedBPM[1]) >= s.nextScheduledBeat[1]
    THEN LET beatInterval == BeatInterval(s.detectedBPM[1])
             fired == [s EXCEPT !.lastBeatTime = s.nextScheduledBeat[1],
                                !.nextScheduledBeat = Some(s.nextScheduledBeat[1] + beatInterval)]
             call == Some([t |-> t, intensity |-> LockedIntensity, mode |-> "scheduled",
                           votes |-> 0, outcome |-> outcome])
         IN  IF GuardedCall(outcome) = "continue"
             THEN [state |-> ShiftAndRequest(fired, freqData), call |-> call]
             ELSE [state |-> fired, call |-> call]
    ELSE [state |-> ShiftAndRequest(s, freqData), call |-> Null]

\* a variant that drops the lock when the media is sought back before the
\* lock moment
C2Mut_ScheduledBranch(c, s, freqData, t, outcome) ==
    IF t < s.bpmSyncStartTime[1]
    THEN [state |-> ShiftAndRequest([s EXCEPT !.bpmLocked = FALSE], freqData), call |-> Null]
    ELSE IF t >= s.nextScheduledBeat[1]
    THEN LET beatInterval == BeatInterval(s.detectedBPM[1])
             fired == [s EXCEPT !.lastBeatTime = s.nextScheduledBeat[1],
                                !.nextScheduledBeat = Some(s.nextScheduledBeat[1] + beatInterval)]
             call == Some([t |-> t, intensity |-> LockedIntensity, mode |-> "scheduled",
                           votes |-> 0, outcome |-> outcome])
         IN  [state |-> ShiftAndRequest(fired, freqData), call |-> call]
    ELSE [state |-> ShiftAndRequest(s, freqData), call |-> Null]

\* a variant that sets lastBeatTime to the sampled media time on a firing
C21Mut_ScheduledBranch(c, s, freqData, t, outcome) ==
    IF t >= s.nextScheduledBeat[1]
    THEN LET beatInterval == BeatInterval(s.detectedBPM[1])
             fired == [s EXCEPT !.lastBeatTime = t,
                                !.nextScheduledBeat = Some(s.nextScheduledBeat[1] + beatInterval)]
             call == Some([t |-> t, intensity |-> LockedIntensity, mode |-> "scheduled",
                           votes |-> 0, outcome |-> outcome])
         IN  [state |-> ShiftAndRequest(fired, freqData), call |-> call]
    ELSE [state |-> ShiftAndRequest(s, freqData), call |-> Null]

\* a variant that re-anchors the schedule on the sampled media time when
\* the media is more than one interval past the scheduled beat
C27Mut_ScheduledBranch(c, s, freqData, t, outcome) ==
    IF t >= s.nextScheduledBeat[1]
    THEN LET beatInterval == BeatInterval(s.detectedBPM[1])
             next == IF t >= s.nextScheduledBeat[1] + beatInterval
                     THEN t + beatInterval
                     ELSE s.nextScheduledBeat[1] + beatInterval
             fired == [s EXCEPT !.lastBeatTime = s.nextScheduledBeat[1],
                                !.nextScheduledBeat = Some(next)]
             call == Some([t |-> t, intensity |-> LockedIntensity, mode |-> "scheduled",
                           votes |-> 0, outcome |-> outcome])
         IN  [state |-> ShiftAndRequest(fired, freqData), call |-> call]
    ELSE [state |-> ShiftAndRequest(s, freqData), call |-> Null]

\* lines 582-602; s already holds the updated history buffers
ScheduledBranch(c, s, freqData, t, outcome) ==
    IF t >= s.nextScheduledBeat[1]
    THEN LET beatInterval == BeatInterval(s.detectedBPM[1])
             fired == [s EXCEPT !.lastBeatTime = s.nextScheduledBeat[1],
                                !.nextScheduledBeat = Some(s.nextScheduledBeat[1] + beatInterval)]
             call == Some([t |-> t, intensity |-> LockedIntensity, mode |-> "scheduled",
                           votes |-> 0, outcome |-> outcome])
         IN  IF GuardedCall(outcome) = "continue"
             THEN [state |-> ShiftAndRequest(fired, freqData), call |-> call]
             ELSE [state |-> fired, call |-> call]
    ELSE [state |-> ShiftAndRequest(s, freqData), call |-> Null]

\* lines 604-652; s already holds the updated history buffers
DetectionBranch(c, s, freqData, t, outcome, votes, flux) ==
    LET timeSinceLastBeat == TimeSince(t, s.lastBeatTime)
    IN  IF BeatFires(c, votes, timeSinceLastBeat)
        THEN LET fired == [s EXCEPT !.lastBeatTime = t,
                                    !.beatTimes = ShiftWhile(Append(s.beatTimes, t),
                                                             c.beatsToAnalyze + 2)]
                 call == Some([t |-> t, intensity |-> BeatIntensity(flux, s.fluxHistory),
                               mode |-> "detected", votes |-> votes, outcome |-> outcome])
             IN  IF GuardedCall(outcome) = "continue"
                 THEN [state |-> ShiftAndRequest(TryLock(c, fired, t), freqData), call |-> call]
                 ELSE [state |-> fired, call |-> call]
        ELSE [state |-> ShiftAndRequest(s, freqData), call |-> Null]

BoolToInt(b) == IF b THEN 1 ELSE 0

\* a variant whose bass vote is taken whatever useEnergySpikes says
C38Mut_Votes(c, s, freqData, flux, bassEnergy) ==
    LET fluxThreshold == getAdaptiveThreshold(c, s.fluxHistory)
        fluxBeat == /\ Exceeds(flux, fluxThreshold, 10)
                    /\ isLocalMaximum(flux, s.fluxHistory, 3)
                    /\ Len(s.fluxHistory) * 10 >= c.historySize * 3
        bassThreshold == getAdaptiveThreshold(c, s.bassEnergyHistory)
        bassBeat == /\ Exceeds(bassEnergy, bassThreshold, 12)
                    /\ isLocalMaximum(bassEnergy, s.bassEnergyHistory, 4)
        onsetBeat == detectOnset(c, freqData, s.prevFreqData, s.prevPrevFreqData)
    IN  [fluxBeat |-> fluxBeat, bassBeat |-> bassBeat, onsetBeat |-> onsetBeat,
         votes |-> BoolToInt(fluxBeat) + BoolToInt(bassBeat) + BoolToInt(onsetBeat)]

\* a variant whose flux vote does not wait for 30% of historySize
C30Mut_Votes(c, s, freqData, flux, bassEnergy) ==
    LET fluxThreshold == getAdaptiveThreshold(c, s.fluxHistory)
        fluxBeat == /\ Exceeds(flux, fluxThreshold, 10)
                    /\ isLocalMaximum(flux, s.fluxHistory, 3)
        bassThreshold == getAdaptiveThreshold(c, s.bassEnergyHistory)
        bassBeat == /\ c.useEnergySpikes
                    /\ Exceeds(bassEnergy, bassThreshold, 12)
                    /\ isLocalMaximum(bassEnergy, s.bassEnergyHistory, 4)
        onsetBeat == detectOnset(c, freqData, s.prevFreqData, s.prevPrevFreqData)
    IN  [fluxBeat |-> fluxBeat, bassBeat |-> bassBeat, onsetBeat |-> onsetBeat,
         votes |-> BoolToInt(fluxBeat) + BoolToInt(bassBeat) + BoolToInt(onsetBeat)]

\* the three votes of a frame; s already holds the updated history buffers
Votes(c, s, freqData, flux, bassEnergy) ==
    LET fluxThreshold == getAdaptiveThreshold(c, s.fluxHistory)
        fluxBeat == /\ Exceeds(flux, fluxThreshold, 10)
                    /\ isLocalMaximum(flux, s.fluxHistory, 3)
                    /\ Len(s.fluxHistory) * 10 >= c.historySize * 3
        bassThreshold == getAdaptiveThreshold(c, s.bassEnergyHistory)
        bassBeat == /\ c.useEnergySpikes
                    /\ Exceeds(bassEnergy, bassThreshold, 12)
                    /\ isLocalMaximum(bassEnergy, s.bassEnergyHistory, 4)
        onsetBeat == detectOnset(c, freqData, s.prevFreqData, s.prevPrevFreqData)
    IN  [fluxBeat |-> fluxBeat, bassBeat |-> bassBeat, onsetBeat |-> onsetBeat,
         votes |-> BoolToInt(fluxBeat) + BoolToInt(bassBeat) + BoolToInt(onsetBeat)]

\* lines 544-578: the frame is read, the history buffers are updated and the
\* three votes are taken
Spectral(c, s, freqData) ==
    LET sf == calculateSpectralFlux(freqData, s.prevFreqData)
        bassEnergy == getEnergyInRange(freqData, SubBassRange[1], BassRange[2])
        h == [s EXCEPT !.fluxHistory = PushCapped(s.fluxHistory, sf.flux, c.historySize),
                       !.energyHistory = PushCapped(s.energyHistory, sf.intensity, c.historySize),
                       !.bassEnergyHistory = PushCapped(s.bassEnergyHistory, bassEnergy, c.historySize)]
    IN  [state |-> h, flux |-> sf.flux, bassEnergy |-> bassEnergy,
         vote |-> Votes(c, h, freqData, sf.flux, bassEnergy)]

\* a variant whose constant-BPM branch is skipped on a frame with votes
C6Mut_Decide(c, p, freqData, t, outcome) ==
    IF ConstantBpmMode(c, p.state) /\ p.vote.votes = 0
    THEN ScheduledBranch(c, p.state, freqData, t, outcome)
    ELSE DetectionBranch(c, p.state, freqData, t, outcome, p.vote.votes, p.flux)

\* lines 580-653: constant-BPM mode or detection mode
Decide(c, p, freqData, t, outcome) ==
    IF ConstantBpmMode(c, p.state)
    THEN ScheduledBranch(c, p.state, freqData, t, outcome)
    ELSE DetectionBranch(c, p.state, freqData, t, outcome, p.vote.votes, p.flux)

\* analyze(): s is the engine state while the frame request is being served
\* (rafPending is FALSE), freqData the frame read, t the media time sampled,
\* outcome what the callback does when invoked
analyze(c, s, freqData, t, outcome) ==
    Decide(c, Spectral(c, s, freqData), freqData, t, outcome)

----------------------------------------------------------------------------
(* The returned stop function *)

\* a variant that releases the resources but forgets to cancel the request
C3Mut_StopHandle(r, failAt) ==
    LET afterSrc == IF failAt = "src" THEN r ELSE [r EXCEPT !.srcConnected = FALSE]
        afterAnalyser == IF failAt \in {"src", "analyser"} THEN afterSrc
                         ELSE [afterSrc EXCEPT !.analyserConnected = FALSE]
        afterClose == IF failAt \in {"src", "analyser", "close"} THEN afterAnalyser
                      ELSE [afterAnalyser EXCEPT !.ctxOpen = FALSE]
    IN  [state |-> afterClose, threw |-> FALSE]

\* lines 663-672: r holds rafPending and the three resources, failAt names
\* the release step that raises ("none" when none does)
StopHandle(r, failAt) ==
    LET cancelled == [r EXCEPT !.rafPending = FALSE]
        afterSrc == IF failAt = "src" THEN cancelled
                    ELSE [cancelled EXCEPT !.srcConnected = FALSE]
        afterAnalyser == IF failAt \in {"src", "analyser"} THEN afterSrc
                         ELSE [afterSrc EXCEPT !.analyserConnected = FALSE]
        afterClose == IF failAt \in {"src", "analyser", "close"} THEN afterAnalyser
                      ELSE [afterAnalyser EXCEPT !.ctxOpen = FALSE]
    IN  [state |-> afterClose, threw |-> FALSE]

----------------------------------------------------------------------------
(* detectBeatsFromVideo up to the return of the stop function *)

\* the steps that can raise: new AudioCtx(), createMediaElementSource,
\* createAnalyser / fftSize, src.connect, analyser.connect, audioCtx.resume
SetupSteps == {"context", "source", "analyser", "connectSrc", "connectAnalyser"}
StartSteps == SetupSteps \cup {"resume"}

\* a variant that swallows a failure of the two connect calls
C15Mut_StartSession(failAt) ==
    LET setupFailed == failAt \in SetupSteps \ {"connectSrc", "connectAnalyser"}
    IN  [ ctxOpen           |-> failAt # "context",
          srcConnected      |-> failAt \notin {"context", "source", "analyser", "connectSrc"},
          analyserConnected |-> failAt \notin SetupSteps,
          rafPending        |-> ~setupFailed,
          started           |-> IF setupFailed THEN "rejected" ELSE "returned" ]

\* a variant that lets a failure of audioCtx.resume() reject the promise
C16Mut_StartSession(failAt) ==
    LET failed == failAt \in StartSteps
    IN  [ ctxOpen           |-> failAt # "context",
          srcConnected      |-> failAt \notin {"context", "source", "analyser", "connectSrc"},
          analyserConnected |-> failAt \notin SetupSteps,
          rafPending        |-> ~failed,
          started           |-> IF failed THEN "rejected" ELSE "returned" ]

\* lines 373-661: failAt names the step that raises ("none" when none
\* does).  A setup step that raises rejects the promise and skips the rest;
\* a failure of resume is caught and the first frame is requested.
StartSession(failAt) ==
    LET setupFailed == failAt \in SetupSteps
    IN  [ ctxOpen           |-> failAt # "context",
          srcConnected      |-> failAt \notin {"context", "source", "analyser", "connectSrc"},
          analyserConnected |-> failAt \notin SetupSteps,
          rafPending        |-> ~setupFailed,
          started           |-> IF setupFailed THEN "rejected" ELSE "returned" ]

----------------------------------------------------------------------------
(* The session *)

Engine ==
    [ fluxHistory       |-> fluxHistory,
      energyHistory     |-> energyHistory,
      bassEnergyHistory |-> bassEnergyHistory,
      prevFreqData      |-> prevFreqData,
      prevPrevFreqData  |-> prevPrevFreqData,
      lastBeatTime      |-> lastBeatTime,
      beatTimes         |-> beatTimes,
      detectedBPM       |-> detectedBPM,
      bpmLocked         |-> bpmLocked,
      nextScheduledBeat |-> nextScheduledBeat,
      bpmSyncStartTime  |-> bpmSyncStartTime,
      rafPending        |-> rafPending ]

Outcomes == {"returns", "throws"}

\* what the callback can do on a frame: nothing when it is not invoked
OutcomesOf(r) == IF r.call = Null THEN {"returns"} ELSE Outcomes
FailPoints == {"none", "src", "analyser", "close"}

\* handleStart may be called MaxStarts times, the video changed MaxVideoChanges
\* times
MaxStarts == 2
MaxVideoChanges == 2
HandlerIds == 1..MaxStarts

\* the app before the first click: no stop handle, no call of handleStart
AppIdle ==
    /\ stopDetectRef = Null
    /\ handlers = [i \in HandlerIds |-> "idle"]
    /\ sessions = [i \in HandlerIds |-> [state |-> "none", video |-> 0]]
    /\ videoUrl = 0
    /\ mounted = TRUE

\* the closure variables as declared (lines 380-397), before any frame
FreshEngine ==
    /\ fluxHistory = <<>>
    /\ energyHistory = <<>>
    /\ bassEnergyHistory = <<>>
    /\ prevFreqData = ZeroFrame
    /\ prevPrevFreqData = ZeroFrame
    /\ lastBeatTime = NegInfinity
    /\ detectedBPM = Null
    /\ bpmLocked = FALSE
    /\ nextScheduledBeat = Null
    /\ bpmSyncStartTime = Null
    /\ stopCalls = 0
    /\ stopThrew = FALSE
    /\ time = 0
    /\ monotone = TRUE
    /\ emitted = Null
    /\ prevCallTime = Null
    /\ lockedBeats = 0
    /\ confirmedBeats = 0
    /\ probe = Null
    /\ paused = FALSE
    /\ AppIdle

\* everything but the configuration and the beat buffer, as
\* detectBeatsFromVideo leaves it when it returns the stop function
Fresh ==
    /\ FreshEngine
    /\ config = Null
    /\ rafPending = TRUE
    /\ srcConnected = TRUE
    /\ analyserConnected = TRUE
    /\ ctxOpen = TRUE
    /\ started = "returned"
    /\ startFailed = "none"

\* the state when detectBeatsFromVideo has returned the stop function
Init ==
    /\ cfg \in Configs
    /\ beatTimes = <<>>
    /\ Fresh

\* the browser serves the pending frame request: one run of analyze, which
\* samples a media time among Times while the media is paused or ended
\* (isPaused) or not; analyze reads neither videoEl.paused nor videoEl.ended
FrameAt(Times, isPaused) ==
    /\ rafPending
    /\ \E freqData \in Frames :
        \E p \in {Spectral(cfg, [Engine EXCEPT !.rafPending = FALSE], freqData)} :
         \E t \in Times :
          \E outcome \in OutcomesOf(Decide(cfg, p, freqData, t, "returns")) :
          \E r \in {Decide(cfg, p, freqData, t, outcome)} :
           \E n \in {r.state} :
             /\ fluxHistory' = n.fluxHistory
             /\ energyHistory' = n.energyHistory
             /\ bassEnergyHistory' = n.bassEnergyHistory
             /\ prevFreqData' = n.prevFreqData
             /\ prevPrevFreqData' = n.prevPrevFreqData
             /\ lastBeatTime' = n.lastBeatTime
             /\ beatTimes' = n.beatTimes
             /\ detectedBPM' = n.detectedBPM
             /\ bpmLocked' = n.bpmLocked
             /\ nextScheduledBeat' = n.nextScheduledBeat
             /\ bpmSyncStartTime' = n.bpmSyncStartTime
             /\ rafPending' = n.rafPending
             /\ time' = t
             /\ monotone' = (monotone /\ t >= time)
             /\ emitted' = r.call
             /\ prevCallTime' = IF emitted # Null THEN Some(emitted[1].t) ELSE prevCallTime
             /\ lockedBeats' = lockedBeats +
                  (IF r.call # Null /\ r.call[1].mode = "scheduled" THEN 1 ELSE 0)
             /\ confirmedBeats' = confirmedBeats +
                  (IF r.call # Null /\ r.call[1].mode = "detected" THEN 1 ELSE 0)
    /\ paused' = isPaused
    /\ UNCHANGED <<cfg, resourceVars, probe, config, started, startFailed, appVars>>

\* a frame of a media that is not paused
TickAt(Times) == FrameAt(Times, FALSE)

\* a frame while the media plays forward, stands still or is sought forward
Tick == TickAt({t \in TickTimes : t >= time})

\* a frame while the media is paused or ended: the media time stands still
PausedTick == FrameAt({time}, TRUE)

\* a frame after any seek, backward ones included
SeekTick == TickAt(TickTimes)

\* the caller calls the stop function between two frames
Stop ==
    /\ started = "returned"
    /\ stopCalls < MaxStopCalls
    /\ \E failAt \in FailPoints :
         \E r \in {StopHandle([rafPending |-> rafPending, srcConnected |-> srcConnected,
                              analyserConnected |-> analyserConnected, ctxOpen |-> ctxOpen],
                             failAt)} :
             /\ rafPending' = r.state.rafPending
             /\ srcConnected' = r.state.srcConnected
             /\ analyserConnected' = r.state.analyserConnected
             /\ ctxOpen' = r.state.ctxOpen
             /\ stopThrew' = (stopThrew \/ r.threw)
    /\ stopCalls' = stopCalls + 1
    /\ emitted' = Null
    /\ prevCallTime' = IF emitted # Null THEN Some(emitted[1].t) ELSE prevCallTime
    /\ UNCHANGED <<cfg, fluxHistory, energyHistory, bassEnergyHistory, prevFreqData,
                   prevPrevFreqData, lastBeatTime, beatTimes, detectedBPM, bpmLocked,
                   nextScheduledBeat, bpmSyncStartTime, time, monotone, lockedBeats,
                   confirmedBeats, probe, lifecycleVars, appVars>>

\* a frame whose onBeat callback calls the stop function: cancelAnimationFrame
\* gets the id of the request being served, the resources are released (no
\* release step raises here), and analyze goes on after the callback and
\* requests the next frame
StopInCallback ==
    /\ rafPending
    /\ started = "returned"
    /\ stopCalls < MaxStopCalls
    /\ \E freqData \in Frames :
        \E p \in {Spectral(cfg, [Engine EXCEPT !.rafPending = FALSE], freqData)} :
         \E t \in {u \in TickTimes : u >= time} :
          \E r \in {Decide(cfg, p, freqData, t, "returns")} :
           \E failAt \in {"none"} :
            \E h \in {StopHandle([rafPending |-> FALSE, srcConnected |-> srcConnected,
                                 analyserConnected |-> analyserConnected, ctxOpen |-> ctxOpen],
                                failAt)} :
             \E n \in {r.state} :
               /\ r.call # Null
               /\ fluxHistory' = n.fluxHistory
               /\ energyHistory' = n.energyHistory
               /\ bassEnergyHistory' = n.bassEnergyHistory
               /\ prevFreqData' = n.prevFreqData
               /\ prevPrevFreqData' = n.prevPrevFreqData
               /\ lastBeatTime' = n.lastBeatTime
               /\ beatTimes' = n.beatTimes
               /\ detectedBPM' = n.detectedBPM
               /\ bpmLocked' = n.bpmLocked
               /\ nextScheduledBeat' = n.nextScheduledBeat
               /\ bpmSyncStartTime' = n.bpmSyncStartTime
               /\ rafPending' = (h.state.rafPending \/ n.rafPending)
               /\ srcConnected' = h.state.srcConnected
               /\ analyserConnected' = h.state.analyserConnected
               /\ ctxOpen' = h.state.ctxOpen
               /\ stopThrew' = (stopThrew \/ h.threw)
               /\ time' = t
               /\ monotone' = (monotone /\ t >= time)
               /\ emitted' = Some([r.call[1] EXCEPT !.outcome = "stops"])
               /\ prevCallTime' = IF emitted # Null THEN Some(emitted[1].t) ELSE prevCallTime
               /\ lockedBeats' = lockedBeats +
                    (IF r.call[1].mode = "scheduled" THEN 1 ELSE 0)
               /\ confirmedBeats' = confirmedBeats +
                    (IF r.call[1].mode = "detected" THEN 1 ELSE 0)
    /\ stopCalls' = stopCalls + 1
    /\ paused' = FALSE
    /\ UNCHANGED <<cfg, probe, config, started, startFailed, appVars>>

Next == Tick \/ Stop

\* a session whose media time never goes back, until it is stopped
Spec == Init /\ [][Next]_vars

\* a session with seeks in both directions
SpecSeek == Init /\ [][SeekTick]_vars

\* sessions started with other options: short history buffers (historySize
\* 0 .. MaxHistorySize), no BPM sync with a beat buffer of 5, and a lock
\* attempted from the fifth beat
MaxHistorySize == 2

OptionConfigs ==
    {[BaseConfig(0, 4) EXCEPT !.historySize = h] : h \in 0..MaxHistorySize}
      \cup {[BaseConfig(0, 3) EXCEPT !.bpmSyncEnabled = FALSE], BaseConfig(0, 5)}

InitOptions ==
    /\ cfg \in OptionConfigs
    /\ beatTimes = <<>>
    /\ Fresh

SpecOptions == InitOptions /\ [][Tick]_vars

\* a session of the dense configuration
\* configurations with the flux vote alone: minBeatSeparation 0.25 s and 0.375 s
FluxOnlyConfigs ==
    {[BaseConfig(s, 3) EXCEPT !.useOnsetDetection = FALSE, !.useEnergySpikes = FALSE] :
        s \in {10, 15}}

InitFluxOnly ==
    /\ cfg \in FluxOnlyConfigs
    /\ beatTimes = <<>>
    /\ Fresh

SpecFluxOnly == InitFluxOnly /\ [][Tick]_vars

InitDense ==
    /\ cfg = BaseConfig(0, 4)
    /\ beatTimes = <<>>
    /\ Fresh

\* a session whose callback may call the stop function
SpecReentrant == InitDense /\ [][Tick \/ StopInCallback]_vars

\* a session of the dense configuration with seeks in both directions
SpecRewind == InitDense /\ [][SeekTick]_vars

\* detectBeatsFromVideo has been called and has built nothing yet
InitStart ==
    /\ cfg \in Configs
    /\ beatTimes = <<>>
    /\ FreshEngine
    /\ config = Null
    /\ rafPending = FALSE
    /\ srcConnected = FALSE
    /\ analyserConnected = FALSE
    /\ ctxOpen = FALSE
    /\ started = "pending"
    /\ startFailed = "none"

\* the pipeline is built, the context resumed and the first frame requested
Start ==
    /\ started = "pending"
    /\ \E failAt \in StartSteps \cup {"none"} :
         \E r \in {StartSession(failAt)} :
             /\ ctxOpen' = r.ctxOpen
             /\ srcConnected' = r.srcConnected
             /\ analyserConnected' = r.analyserConnected
             /\ rafPending' = r.rafPending
             /\ started' = r.started
             /\ startFailed' = failAt
    /\ UNCHANGED <<cfg, fluxHistory, energyHistory, bassEnergyHistory, prevFreqData,
                   prevPrevFreqData, lastBeatTime, beatTimes, detectedBPM, bpmLocked,
                   nextScheduledBeat, bpmSyncStartTime, stopCalls, stopThrew,
                   observerVars, probe, config, paused, appVars>>

\* a session from the call of detectBeatsFromVideo on
SpecStart == InitStart /\ [][Start \/ Tick]_vars

\* a session whose media is paused (or has ended) during some frames
SpecPause == Init /\ [][Tick \/ PausedTick]_vars

----------------------------------------------------------------------------
(* The app: handleStart, the effect of a video change and the cleanup at     *)
(* unmount, around sessions seen from outside: "none" before the call of     *)
(* detectBeatsFromVideo, "starting" while it awaits audioCtx.resume(),       *)
(* "failed" when the construction of the pipeline raised, "running" once the *)
(* first frame is requested and the stop function returned, "stopped" once   *)
(* the stop function was called                                              *)

\* stopDetectRef.current?.() : the handle of a stopped session cancels and
\* releases again, which leaves the session stopped
CallStopDetect(ref, ss) ==
    IF ref = Null THEN ss
    ELSE [ss EXCEPT ![ref[1]].state = IF @ = "running" THEN "stopped" ELSE @]

\* what the construction of the pipeline can do: with the component unmounted
\* videoRef.current is null and createMediaElementSource raises
SetupOutcomes == IF mounted THEN {"built", "raised"} ELSE {"raised"}

\* the start button is clicked: handleStart runs up to await video.play()
ClickStart(i) ==
    /\ mounted
    /\ handlers[i] = "idle"
    /\ \A j \in HandlerIds : j < i => handlers[j] # "idle"
    /\ handlers' = [handlers EXCEPT ![i] = "play"]
    /\ UNCHANGED <<stopDetectRef, sessions, videoUrl, mounted, sessionVars>>

\* play() is rejected: the catch of handleStart logs and the call ends
PlayRejects(i) ==
    /\ handlers[i] = "play"
    /\ handlers' = [handlers EXCEPT ![i] = "done"]
    /\ UNCHANGED <<stopDetectRef, sessions, videoUrl, mounted, sessionVars>>

\* play() is fulfilled: the handle held by stopDetectRef is called, then
\* detectBeatsFromVideo, which builds its pipeline and awaits resume(), or
\* raises, which the catch of handleStart logs
PlayResolves(i) ==
    /\ handlers[i] = "play"
    /\ \E setup \in SetupOutcomes :
        LET stopped == CallStopDetect(stopDetectRef, sessions)
        IN  IF setup = "built"
            THEN /\ sessions' = [stopped EXCEPT ![i] = [state |-> "starting", video |-> videoUrl]]
                 /\ handlers' = [handlers EXCEPT ![i] = "start"]
            ELSE /\ sessions' = [stopped EXCEPT ![i] = [state |-> "failed", video |-> videoUrl]]
                 /\ handlers' = [handlers EXCEPT ![i] = "done"]
    /\ UNCHANGED <<stopDetectRef, videoUrl, mounted, sessionVars>>

\* resume() settles: detectBeatsFromVideo requests the first frame and
\* returns the stop function, which handleStart stores in stopDetectRef
StartResolves(i) ==
    /\ handlers[i] = "start"
    /\ sessions' = [sessions EXCEPT ![i].state = "running"]
    /\ stopDetectRef' = Some(i)
    /\ handlers' = [handlers EXCEPT ![i] = "done"]
    /\ UNCHANGED <<videoUrl, mounted, sessionVars>>

\* a new video is loaded: the effect on [videoUrl] calls the handle held
VideoChange ==
    /\ mounted
    /\ videoUrl < MaxVideoChanges
    /\ videoUrl' = videoUrl + 1
    /\ sessions' = CallStopDetect(stopDetectRef, sessions)
    /\ UNCHANGED <<stopDetectRef, handlers, mounted, sessionVars>>

\* the component unmounts: the cleanup calls the handle held
Unmount ==
    /\ mounted
    /\ mounted' = FALSE
    /\ sessions' = CallStopDetect(stopDetectRef, sessions)
    /\ UNCHANGED <<stopDetectRef, handlers, videoUrl, sessionVars>>

\* the app with no session yet; handleStart passes minBeatSeparation 1.5 s
InitApp ==
    /\ cfg = BaseConfig(60, 3)
    /\ beatTimes = <<>>
    /\ FreshEngine
    /\ config = Null
    /\ rafPending = FALSE
    /\ srcConnected = FALSE
    /\ analyserConnected = FALSE
    /\ ctxOpen = FALSE
    /\ started = "pending"
    /\ startFailed = "none"

AppNext ==
    \/ \E i \in HandlerIds : ClickStart(i)
    \/ \E i \in HandlerIds : PlayRejects(i)
    \/ \E i \in HandlerIds : PlayResolves(i)
    \/ \E i \in HandlerIds : StartResolves(i)
    \/ VideoChange
    \/ Unmount

SpecApp == InitApp /\ [][AppNext]_vars

----------------------------------------------------------------------------
(* calculateBPM applied on its own to a beat buffer *)

MaxBufferLen == 5

\* gaps between consecutive beats: 0.125 s .. 2.25 s
IntervalChoices == {1, 2, 4, 10, 16, 18}

RECURSIVE FromGaps(_, _)
FromGaps(start, gaps) ==
    IF Len(gaps) = 0 THEN <<start>>
    ELSE <<start>> \o FromGaps(start + gaps[1], Tail(gaps))

\* buffers of 4 .. MaxBufferLen beats, and 8 beats at a constant gap
ProbeBuffers ==
    UNION {{FromGaps(0, g) : g \in [1..(n - 1) -> IntervalChoices]} : n \in 4..MaxBufferLen}
      \cup {FromGaps(0, [i \in 1..7 |-> d]) : d \in IntervalChoices}

InitBPM ==
    /\ cfg \in {BaseConfig(0, 4), BaseConfig(0, 6)}
    /\ beatTimes \in ProbeBuffers
    /\ Fresh

ApplyBPM ==
    /\ probe = Null
    /\ probe' = Some(calculateBPM(cfg, beatTimes))
    /\ UNCHANGED <<cfg, engineVars, resourceVars, observerVars, lifecycleVars, appVars>>

SpecBPM == InitBPM /\ [][ApplyBPM]_vars

----------------------------------------------------------------------------
(* Detection mode applied on its own to frames that confirm a beat (two      *)
(* votes), at chosen gaps after the previous beat                            *)

MaxConfirmedBeats == 7

\* gaps between consecutive beats: 0.125 s, 0.5 s and 2.25 s
LockGaps == {1, 4, 18}

InitLock ==
    /\ cfg \in {BaseConfig(0, 3), BaseConfig(0, 4)}
    /\ beatTimes = <<>>
    /\ Fresh

\* a frame with two votes, a gap among Gaps after the previous beat, on
\* which a beat fires
ConfirmBeatAt(Gaps) ==
    /\ rafPending
    /\ ~ConstantBpmMode(cfg, Engine)
    /\ confirmedBeats < MaxConfirmedBeats
    /\ \E gap \in Gaps :
        \E t \in {IF lastBeatTime = NegInfinity THEN 0 ELSE lastBeatTime + gap} :
         \E r \in {DetectionBranch(cfg, [Engine EXCEPT !.rafPending = FALSE],
                                    prevFreqData, t, "returns", 2, 0)} :
          \E n \in {r.state} :
             /\ r.call # Null
             /\ lastBeatTime' = n.lastBeatTime
             /\ beatTimes' = n.beatTimes
             /\ detectedBPM' = n.detectedBPM
             /\ bpmLocked' = n.bpmLocked
             /\ nextScheduledBeat' = n.nextScheduledBeat
             /\ bpmSyncStartTime' = n.bpmSyncStartTime
             /\ prevFreqData' = n.prevFreqData
             /\ prevPrevFreqData' = n.prevPrevFreqData
             /\ rafPending' = n.rafPending
             /\ time' = t
             /\ emitted' = r.call
             /\ prevCallTime' = IF emitted # Null THEN Some(emitted[1].t) ELSE prevCallTime
             /\ confirmedBeats' = confirmedBeats + 1
    /\ UNCHANGED <<cfg, fluxHistory, energyHistory, bassEnergyHistory, resourceVars,
                   monotone, lockedBeats, probe, lifecycleVars, appVars>>

ConfirmBeat == ConfirmBeatAt(LockGaps)

SpecLock == InitLock /\ [][ConfirmBeat]_vars

----------------------------------------------------------------------------
(* Constant-BPM mode applied on its own to the frames after a lock, while    *)
(* the media plays on to its end                                              *)

\* the last media time, in eighths of a second
MaxPlayTime == 32

PlayTimes == 0..MaxPlayTime

\* a frame served in constant-BPM mode at a media time among Times
LockedFrameAt(Times) ==
    /\ rafPending
    /\ ConstantBpmMode(cfg, Engine)
    /\ \E t \in Times :
        \E outcome \in OutcomesOf(ScheduledBranch(cfg, [Engine EXCEPT !.rafPending = FALSE],
                                                  prevFreqData, t, "returns")) :
         \E r \in {ScheduledBranch(cfg, [Engine EXCEPT !.rafPending = FALSE],
                                    prevFreqData, t, outcome)} :
          \E n \in {r.state} :
             /\ lastBeatTime' = n.lastBeatTime
             /\ beatTimes' = n.beatTimes
             /\ detectedBPM' = n.detectedBPM
             /\ bpmLocked' = n.bpmLocked
             /\ nextScheduledBeat' = n.nextScheduledBeat
             /\ bpmSyncStartTime' = n.bpmSyncStartTime
             /\ prevFreqData' = n.prevFreqData
             /\ prevPrevFreqData' = n.prevPrevFreqData
             /\ rafPending' = n.rafPending
             /\ time' = t
             /\ emitted' = r.call
             /\ prevCallTime' = IF emitted # Null THEN Some(emitted[1].t) ELSE prevCallTime
             /\ lockedBeats' = lockedBeats + (IF r.call # Null THEN 1 ELSE 0)
    /\ UNCHANGED <<cfg, fluxHistory, energyHistory, bassEnergyHistory, resourceVars,
                   monotone, confirmedBeats, probe, lifecycleVars, appVars>>

\* a frame while the media plays forward or stands still
LockedFrame == LockedFrameAt({t \in PlayTimes : t >= time})

\* a frame on which the media time has grown
AdvancingFrame == LockedFrameAt({t \in PlayTimes : t > time})

\* beats are confirmed until the tempo locks; from then on the frame request
\* of each frame is served and the media plays on up to MaxPlayTime
SpecPlaying ==
    /\ InitLock
    /\ [][ConfirmBeat \/ LockedFrame]_vars
    /\ WF_vars(LockedFrame)
    /\ WF_vars(AdvancingFrame)

\* gaps between consecutive beats: 2.0 s, 2.125 s and 3.0 s
SparseGaps == {16, 17, 24}

\* minBeatSeparation 1.875 s, 2.0 s (the value passed by handleStart) and 2.2 s
InitSparse ==
    /\ cfg \in {BaseConfig(MaxValidInterval * 5 - 5, 3),
                BaseConfig(MaxValidInterval * 5, 3),
                BaseConfig(MaxValidInterval * 5 + 8, 3)}
    /\ beatTimes = <<>>
    /\ Fresh

SparseBeat == ConfirmBeatAt(SparseGaps)

SpecSparse == InitSparse /\ [][SparseBeat]_vars

----------------------------------------------------------------------------
(* The configuration merge applied on its own to a caller's config *)

\* for each option, not given (Null) or given with one of these values
OptionChoices ==
    [ energyThreshold   : {Null, Some(11), Some(20)},
      minBeatSeparation : {Null, Some(14), Some(60)},
      sensitivityMode   : {Null, Some("low"), Some("medium"), Some("high")},
      historySize       : {Null, Some(5)},
      beatsToAnalyze    : {Null, Some(4)},
      bpmSyncEnabled    : {Null, Some(FALSE)} ]

\* the object holding the options that are given
Given(choice) ==
    [k \in {o \in DOMAIN choice : choice[o] # Null} |-> choice[k][1]]

CallerConfigs == {Given(choice) : choice \in OptionChoices}

InitMerge ==
    /\ cfg = BaseConfig(0, 4)
    /\ beatTimes = <<>>
    /\ Fresh

ApplyMerge ==
    /\ config = Null
    /\ \E given \in CallerConfigs :
         /\ config' = Some(given)
         /\ probe' = Some(MergeConfig(given))
    /\ UNCHANGED <<cfg, engineVars, resourceVars, observerVars, started, startFailed, paused, appVars>>

SpecMerge == InitMerge /\ [][ApplyMerge]_vars

----------------------------------------------------------------------------
(* getAdaptiveThreshold and the two threshold votes applied on their own to *)
(* a history buffer whose last element is the current value                 *)

MaxHistoryLen == 6

\* values a history holds: 0, 1, 2 and 5 times one unit
HistoryValues == {0, 1, 2, 5}

ProbeHistories == UNION {[1..n -> HistoryValues] : n \in 0..MaxHistoryLen}

\* the value pushed last
CurrentOf(history) == IF Len(history) = 0 THEN 0 ELSE history[Len(history)]

\* energyThreshold 1.4 and 0 with historySize 5, and energyThreshold 0 with
\* historySize 20
ThresholdConfigs ==
    {BaseConfig(0, 4), [BaseConfig(0, 4) EXCEPT !.energyThreshold = 0],
     [BaseConfig(0, 4) EXCEPT !.energyThreshold = 0, !.historySize = 20]}

InitThreshold ==
    /\ cfg \in ThresholdConfigs
    /\ fluxHistory \in ProbeHistories
    /\ bassEnergyHistory = fluxHistory
    /\ energyHistory = <<>>
    /\ beatTimes = <<>>
    /\ prevFreqData = ZeroFrame
    /\ prevPrevFreqData = ZeroFrame
    /\ lastBeatTime = NegInfinity
    /\ detectedBPM = Null
    /\ bpmLocked = FALSE
    /\ nextScheduledBeat = Null
    /\ bpmSyncStartTime = Null
    /\ stopCalls = 0
    /\ stopThrew = FALSE
    /\ time = 0
    /\ monotone = TRUE
    /\ emitted = Null
    /\ prevCallTime = Null
    /\ lockedBeats = 0
    /\ confirmedBeats = 0
    /\ probe = Null
    /\ config = Null
    /\ paused = FALSE
    /\ rafPending = TRUE
    /\ srcConnected = TRUE
    /\ analyserConnected = TRUE
    /\ ctxOpen = TRUE
    /\ started = "returned"
    /\ startFailed = "none"
    /\ AppIdle

ApplyThreshold ==
    /\ probe = Null
    /\ probe' = Some([threshold |-> getAdaptiveThreshold(cfg, fluxHistory),
                      vote |-> Votes(cfg, Engine, ZeroFrame, CurrentOf(fluxHistory),
                                     CurrentOf(bassEnergyHistory))])
    /\ UNCHANGED <<cfg, engineVars, resourceVars, observerVars, lifecycleVars, appVars>>

SpecThreshold == InitThreshold /\ [][ApplyThreshold]_vars

----------------------------------------------------------------------------
(* Properties *)

IsLocked == ConstantBpmMode(cfg, Engine)
Running == [Engine EXCEPT !.rafPending = FALSE]

\* the tempo state and the callback of a frame
TempoView(r) ==
    [ lastBeatTime      |-> r.state.lastBeatTime,
      beatTimes         |-> r.state.beatTimes,
      detectedBPM       |-> r.state.detectedBPM,
      bpmLocked         |-> r.state.bpmLocked,
      nextScheduledBeat |-> r.state.nextScheduledBeat,
      bpmSyncStartTime  |-> r.state.bpmSyncStartTime,
      rafPending        |-> r.state.rafPending,
      call              |-> IF r.call = Null THEN Null
                            ELSE Some([t |-> r.call[1].t, intensity |-> r.call[1].intensity,
                                       mode |-> r.call[1].mode]) ]

\* the engine with another spectral past: empty buffers, initial frames
OtherSpectralPast(s) ==
    [s EXCEPT !.fluxHistory = <<>>, !.energyHistory = <<>>, !.bassEnergyHistory = <<>>,
              !.prevFreqData = ZeroFrame, !.prevPrevFreqData = ZeroFrame]

Detected == emitted # Null /\ emitted[1].mode = "detected"
Scheduled == emitted # Null /\ emitted[1].mode = "scheduled"

\* C1: a beat emitted in detection mode is more than minBeatSeparation after
\* the previous callback, and more than 1.5 x minBeatSeparation after it when
\* it had exactly one vote; the same holds between any two buffered beats
C1_UnlockedSeparation ==
    /\ (Detected /\ prevCallTime # Null) =>
          /\ (emitted[1].t - prevCallTime[1]) * 5 > cfg.minBeatSeparation
          /\ emitted[1].votes = 1 =>
                (emitted[1].t - prevCallTime[1]) * 10 > cfg.minBeatSeparation * 3
    /\ \A i, j \in 1..Len(beatTimes) :
          i < j => (beatTimes[j] - beatTimes[i]) * 5 > cfg.minBeatSeparation

C1_Witness ==
    /\ cfg.minBeatSeparation = 15
    /\ Detected /\ prevCallTime # Null
    /\ emitted[1].votes = 1
    /\ Len(beatTimes) >= 3

\* C2: the session starts unlocked, and a locked session stays locked with
\* the same BPM and lock time at every later frame, whatever media time
\* (seeks included) and callback outcome it has
C2_LockIsOneWay ==
    /\ ~IsLocked
    /\ [][IsLocked => (IsLocked' /\ detectedBPM' = detectedBPM
                                 /\ bpmSyncStartTime' = bpmSyncStartTime)]_vars

C2_Witness ==
    /\ IsLocked
    /\ lockedBeats >= 1
    /\ ~monotone
    /\ time < bpmSyncStartTime[1]

\* C3: once the stop function has been called between two frames no frame
\* request is pending, no step invokes the callback, and no call of the stop
\* function raised
C3_StopCancels ==
    stopCalls >= 1 => (~rafPending /\ emitted = Null /\ ~stopThrew)

C3_Witness ==
    /\ stopCalls = 2
    /\ confirmedBeats >= 1
    /\ lockedBeats >= 1

\* C4: a frame leaves the same engine state and makes the same callback
\* whether the callback throws or returns, in both modes, and after a
\* callback that threw the next frame request is pending
C4_ThrowIsIsolated ==
    /\ rafPending =>
          \A freqData \in Frames :
             LET p == Spectral(cfg, Running, freqData)
             IN  \A t \in TickTimes :
                    LET a == Decide(cfg, p, freqData, t, "throws")
                        b == Decide(cfg, p, freqData, t, "returns")
                    IN  /\ a.state = b.state
                        /\ TempoView(a) = TempoView(b)
                        /\ a.state.rafPending
    /\ (emitted # Null /\ emitted[1].outcome = "throws" /\ stopCalls = 0) => rafPending

C4_Witness ==
    /\ Scheduled
    /\ emitted[1].outcome = "throws"
    /\ rafPending
    /\ confirmedBeats >= 1

\* C5: with non-decreasing media times, the k-th callback of constant-BPM mode
\* (k = 0, 1, ...) carries the timestamp t0 + k * (60 / bpm), where t0 is the
\* first scheduled time
C5_ScheduledTimestamps ==
    (Scheduled /\ monotone) =>
        LET interval == BeatInterval(detectedBPM[1])
            t0 == bpmSyncStartTime[1] + interval
        IN  emitted[1].t = t0 + (lockedBeats - 1) * interval

\* C6: in constant-BPM mode the tempo state and the callback of a frame are
\* the same whatever frame is read and whatever the spectral past is (every
\* frame and past gives what one fixed frame gives)
C6_LockedIgnoresSpectrum ==
    (IsLocked /\ rafPending) =>
        LET f0 == CHOOSE f \in Frames : TRUE
            here0 == Spectral(cfg, Running, f0)
        IN  \A f \in Frames :
               LET here == Spectral(cfg, Running, f)
                   other == Spectral(cfg, OtherSpectralPast(Running), f)
               IN  \A t \in TickTimes, outcome \in Outcomes :
                      LET view0 == TempoView(Decide(cfg, here0, f0, t, outcome))
                      IN  /\ TempoView(Decide(cfg, here, f, t, outcome)) = view0
                          /\ TempoView(Decide(cfg, other, f, t, outcome)) = view0

C6_Witness ==
    /\ Scheduled
    /\ lockedBeats >= 2
    /\ Len(fluxHistory) = cfg.historySize

\* the buffer holds beats at one constant valid interval
ConstantValidSpacing(bt) ==
    /\ Len(bt) >= 2
    /\ IsValidInterval(bt[2] - bt[1])
    /\ \A i \in 1..(Len(bt) - 1) : bt[i + 1] - bt[i] = bt[2] - bt[1]

LocksOnLastNeededBeat ==
    /\ confirmedBeats < cfg.beatsToAnalyze => ~IsLocked
    /\ (confirmedBeats = cfg.beatsToAnalyze /\ ConstantValidSpacing(beatTimes)) =>
          /\ IsLocked
          /\ Detected =>
                nextScheduledBeat = Some(lastBeatTime + BeatInterval(detectedBPM[1]))

\* C7 as stated: for every beatsToAnalyze >= 3 with bpmSyncEnabled, when the
\* first beatsToAnalyze confirmed beats are at one constant valid interval
\* the session is locked from the beatsToAnalyze-th beat (not before), with
\* nextScheduledBeat = lastBeatTime + 60/bpm at that beat
C7_Original ==
    (cfg.bpmSyncEnabled /\ cfg.beatsToAnalyze >= 3) => LocksOnLastNeededBeat

\* C7 amended: the same for every beatsToAnalyze >= 4
C7_LocksFromFourBeats ==
    (cfg.bpmSyncEnabled /\ cfg.beatsToAnalyze >= 4) => LocksOnLastNeededBeat

C7_Witness ==
    /\ cfg.bpmSyncEnabled /\ cfg.beatsToAnalyze = 4
    /\ confirmedBeats = 4
    /\ ConstantValidSpacing(beatTimes)
    /\ Detected
    /\ IsLocked
    /\ beatTimes[2] - beatTimes[1] = 4

\* C8: with non-decreasing media times every callback's timestamp is
\* strictly greater than the previous callback's
C8_StrictlyIncreasing ==
    (monotone /\ emitted # Null /\ prevCallTime # Null) =>
        emitted[1].t > prevCallTime[1]

\* C9: after a call of the stop function, whichever release step raised, the
\* call did not raise, no frame request is pending and the source, the
\* analyser and the audio context are all released
C9_StopReleasesAll ==
    stopCalls >= 1 =>
        /\ ~stopThrew
        /\ ~rafPending
        /\ ~srcConnected /\ ~analyserConnected /\ ~ctxOpen

\* fractions
FracEq(a, b) == a.n * b.d = b.n * a.d
OptFracEq(x, y) == IF x = Null \/ y = Null THEN x = y ELSE FracEq(x[1], y[1])

\* the conventional median of a non-empty sequence, as a fraction
Median(s) ==
    LET srt == Sorted(s)
        n == Len(s)
    IN  IF n % 2 = 1 THEN [n |-> srt[(n + 1) \div 2], d |-> 1]
        ELSE [n |-> srt[n \div 2] + srt[(n \div 2) + 1], d |-> 2]

\* the acceptance rule applied to b = 60 / median(valid)
BpmByMedian(valid) ==
    LET m == Median(valid)
        b == [n |-> SixtySeconds * m.d, d |-> m.n]
    IN  IF BpmGeq(b, 60) /\ BpmLeq(b, 200) THEN Some(b)
        ELSE IF BpmGt(b, 200) /\ BpmLeq(b, 400) THEN Some([n |-> b.n, d |-> 2 * b.d])
        ELSE IF BpmGeq(b, 30) /\ BpmLt(b, 60) THEN Some([n |-> 2 * b.n, d |-> b.d])
        ELSE Null

C11_ThresholdWarmupAndTie ==
    probe # Null =>
        LET threshold == probe[1].threshold
            vote == probe[1].vote
        IN  /\ Len(fluxHistory) < 5 =>
                  (~threshold.finite /\ ~vote.fluxBeat /\ ~vote.bassBeat)
            /\ fluxHistory = <<1, 1, 1, 1, 1>> =>
                  (threshold.finite /\ threshold.value = 1 * ThresholdScale)
            /\ (threshold.finite
                  /\ CurrentOf(fluxHistory) * ThresholdScale = threshold.value) =>
                  (~vote.fluxBeat /\ ~vote.bassBeat)

C11_Witness ==
    /\ probe # Null
    /\ fluxHistory = <<1, 1, 1, 1, 1>>
    /\ probe[1].threshold = [finite |-> TRUE, value |-> ThresholdScale]
    /\ isLocalMaximum(CurrentOf(fluxHistory), fluxHistory, 3)

\* C12: after every frame, locked or not, each of the three history buffers
\* holds at most historySize values (historySize 0 included)
C12_HistoriesBounded ==
    /\ Len(fluxHistory) <= cfg.historySize
    /\ Len(energyHistory) <= cfg.historySize
    /\ Len(bassEnergyHistory) <= cfg.historySize

C12_Witness ==
    /\ IsLocked
    /\ Scheduled
    /\ cfg.historySize = 1
    /\ Len(fluxHistory) = 1 /\ Len(energyHistory) = 1 /\ Len(bassEnergyHistory) = 1

BeatBufferCap == cfg.beatsToAnalyze + 2

\* C13: the beat buffer never holds more than beatsToAnalyze + 2 timestamps;
\* a frame that emits a detected beat appends its timestamp and keeps the
\* last beatsToAnalyze + 2 entries (the oldest is evicted), and every other
\* step leaves the buffer as it is
C13_BeatBufferIsRecentWindow ==
    /\ Len(beatTimes) <= BeatBufferCap
    /\ [][ /\ Len(beatTimes') <= BeatBufferCap
            /\ IF emitted' # Null /\ emitted'[1].mode = "detected"
               THEN beatTimes' = LastN(Append(beatTimes, emitted'[1].t), BeatBufferCap)
               ELSE beatTimes' = beatTimes ]_vars

C13_Witness ==
    /\ Detected
    /\ confirmedBeats = BeatBufferCap + 1
    /\ Len(beatTimes) = BeatBufferCap
    /\ beatTimes[Len(beatTimes)] = emitted[1].t

\* C14: a frame that runs while the media is paused or ended leaves the
\* history buffers, lastBeatTime, the beat buffer and the tempo state
\* unchanged and invokes no callback, and the next frame is requested
C14_PausedFrameSkipsAnalysis ==
    [][paused' =>
          /\ fluxHistory' = fluxHistory
          /\ energyHistory' = energyHistory
          /\ bassEnergyHistory' = bassEnergyHistory
          /\ lastBeatTime' = lastBeatTime
          /\ beatTimes' = beatTimes
          /\ detectedBPM' = detectedBPM
          /\ bpmLocked' = bpmLocked
          /\ nextScheduledBeat' = nextScheduledBeat
          /\ emitted' = Null
          /\ rafPending']_vars

\* C15: when a step that constructs or connects the pipeline raises, the
\* promise is rejected (no stop function), no frame is ever requested or
\* analysed, and the callback is never invoked
C15_SetupFailureRejects ==
    startFailed \in SetupSteps =>
        /\ started = "rejected"
        /\ ~rafPending
        /\ emitted = Null /\ prevCallTime = Null
        /\ confirmedBeats = 0 /\ lockedBeats = 0
        /\ fluxHistory = <<>> /\ energyHistory = <<>> /\ bassEnergyHistory = <<>>
        /\ stopCalls = 0

C15_Witness ==
    /\ startFailed = "connectAnalyser"
    /\ started = "rejected"
    /\ ctxOpen /\ srcConnected /\ ~analyserConnected

\* C16: when audioCtx.resume() raises, the stop function is still returned
\* and the first frame is requested; the session is left as a successful
\* resume leaves it, and frames keep being requested
C16_ResumeFailureStillRuns ==
    /\ started = "pending" => StartSession("resume") = StartSession("none")
    /\ startFailed = "resume" =>
          /\ started = "returned"
          /\ rafPending
          /\ srcConnected /\ analyserConnected /\ ctxOpen

C16_Witness ==
    /\ startFailed = "resume"
    /\ started = "returned"
    /\ confirmedBeats >= 1
    /\ lockedBeats >= 1

\* the option is among those the caller gave
IsGiven(option) == option \in DOMAIN config[1]

\* the sensitivity mode selected: the caller's, or medium
SelectedMode == IF IsGiven("sensitivityMode") THEN config[1]["sensitivityMode"] ELSE "medium"

\* C17: energyThreshold and minBeatSeparation are each the caller's value
\* when given, otherwise the value of the preset of the selected
\* sensitivityMode (medium when none is given); every other option is the
\* caller's value when given, otherwise the default
C17_MergedOptions ==
    probe # Null =>
        /\ probe[1]["energyThreshold"] =
              IF IsGiven("energyThreshold") THEN config[1]["energyThreshold"]
              ELSE SENSITIVITY_PRESETS[SelectedMode].energyThreshold
        /\ probe[1]["minBeatSeparation"] =
              IF IsGiven("minBeatSeparation") THEN config[1]["minBeatSeparation"]
              ELSE SENSITIVITY_PRESETS[SelectedMode].minBeatSeparation
        /\ \A k \in DOMAIN DEFAULT_CONFIG \ {"energyThreshold", "minBeatSeparation"} :
              probe[1][k] = IF IsGiven(k) THEN config[1][k] ELSE DEFAULT_CONFIG[k]

C17_Witness ==
    /\ probe # Null
    /\ IsGiven("energyThreshold") /\ ~IsGiven("minBeatSeparation")
    /\ IsGiven("sensitivityMode") /\ config[1]["sensitivityMode"] = "low"
    /\ probe[1]["energyThreshold"] = 20
    /\ probe[1]["minBeatSeparation"] = 20
    /\ probe[1]["historySize"] = 50

\* a fraction within [0, 1]
InUnitInterval(f) == f.d > 0 /\ f.n >= 0 /\ f.n <= f.d

\* clamp01 of the fraction n / d, d > 0
Clamp01(f) ==
    IF f.n > f.d THEN [n |-> 1, d |-> 1]
    ELSE IF f.n < 0 THEN [n |-> 0, d |-> 1]
    ELSE f

\* clamp01(current flux / max of the flux history)
FluxOverMax == Clamp01([n |-> CurrentOf(fluxHistory), d |-> MaxOf(fluxHistory)])

\* C18 as stated: every callback's intensity is within [0, 1]; a scheduled
\* beat gets 0.8 and a detected beat gets clamp01(current flux / max of the
\* flux history), which takes a flux history with a non-zero maximum
C18_Original ==
    emitted # Null =>
        /\ InUnitInterval(emitted[1].intensity)
        /\ Scheduled => FracEq(emitted[1].intensity, [n |-> 8, d |-> 10])
        /\ Detected =>
              /\ Len(fluxHistory) > 0
              /\ MaxOf(fluxHistory) > 0
              /\ FracEq(emitted[1].intensity, FluxOverMax)

\* C18 amended: every callback's intensity is within [0, 1]; a scheduled
\* beat gets 0.8; a detected beat gets clamp01(current flux / max of the
\* flux history) when that maximum is not 0, 0 when it is 0, and 0.5 when
\* the flux history is empty
C18_IntensityInUnitInterval ==
    emitted # Null =>
        /\ InUnitInterval(emitted[1].intensity)
        /\ Scheduled => FracEq(emitted[1].intensity, [n |-> 8, d |-> 10])
        /\ Detected =>
              IF Len(fluxHistory) = 0
              THEN FracEq(emitted[1].intensity, [n |-> 1, d |-> 2])
              ELSE IF MaxOf(fluxHistory) = 0
              THEN FracEq(emitted[1].intensity, [n |-> 0, d |-> 1])
              ELSE FracEq(emitted[1].intensity, FluxOverMax)

C18_Witness ==
    /\ Detected
    /\ Len(fluxHistory) > 1
    /\ CurrentOf(fluxHistory) > 0
    /\ CurrentOf(fluxHistory) = MaxOf(fluxHistory)
    /\ FracEq(emitted[1].intensity, [n |-> 1, d |-> 1])

\* C19: with bpmSyncEnabled = false the session never locks, no tempo and no
\* scheduled beat time is ever set, no scheduled beat is emitted, and the
\* beat buffer holds at most beatsToAnalyze + 2 timestamps, however many
\* beats are detected
C19_NoSyncNeverLocks ==
    ~cfg.bpmSyncEnabled =>
        /\ ~bpmLocked /\ ~IsLocked
        /\ detectedBPM = Null /\ nextScheduledBeat = Null /\ bpmSyncStartTime = Null
        /\ ~Scheduled /\ lockedBeats = 0
        /\ Len(beatTimes) <= cfg.beatsToAnalyze + 2

C19_Witness ==
    /\ ~cfg.bpmSyncEnabled
    /\ confirmedBeats >= cfg.beatsToAnalyze + 4
    /\ calculateBPM(cfg, beatTimes) # Null
    /\ ~bpmLocked

\* elapsed > minBeatSeparation and (votes >= 2 or elapsed > 1.5 x
\* minBeatSeparation), with at least one vote
FiresAsClaimed(votes, elapsed) ==
    /\ votes >= 1
    /\ elapsed * 5 > cfg.minBeatSeparation
    /\ (votes >= 2 \/ elapsed * 10 > cfg.minBeatSeparation * 3)

\* C20: while unlocked, a frame fires a beat if and only if votes >= 1 and
\* elapsed > minBeatSeparation and (votes >= 2 or elapsed > 1.5 x
\* minBeatSeparation), votes counting the flux, bass-spike and onset votes;
\* before the first beat a frame fires as soon as it has one vote
C20_FiresIffVotesAndSeparation ==
    (rafPending /\ ~IsLocked) =>
        \A freqData \in Frames :
           LET p == Spectral(cfg, Running, freqData)
               votes == BoolToInt(p.vote.fluxBeat) + BoolToInt(p.vote.bassBeat)
                          + BoolToInt(p.vote.onsetBeat)
           IN  \A t \in TickTimes :
                  LET fired == Decide(cfg, p, freqData, t, "returns").call # Null
                  IN  /\ fired <=> FiresAsClaimed(votes, TimeSince(t, lastBeatTime))
                      /\ (lastBeatTime = NegInfinity /\ votes >= 1) => fired

C20_Witness ==
    /\ Detected
    /\ emitted[1].votes = 1
    /\ confirmedBeats = 2
    /\ cfg.minBeatSeparation = 15
    /\ (emitted[1].t - prevCallTime[1]) * 10 = cfg.minBeatSeparation * 4


\* C21: while locked, nextScheduledBeat is lockTime + k * (60 / bpm) with
\* k = 1 + the number of scheduled firings so far, lockTime being the media
\* time of the frame that locked; lastBeatTime is the lock time before the
\* first firing and, from each firing on, the scheduled time it consumed
C21_ScheduleIsArithmetic ==
    IsLocked =>
        LET interval == BeatInterval(detectedBPM[1])
            lockTime == bpmSyncStartTime[1]
        IN  /\ nextScheduledBeat = Some(lockTime + (lockedBeats + 1) * interval)
            /\ lastBeatTime = lockTime + lockedBeats * interval
            /\ (lockedBeats = 0 /\ Detected) => emitted[1].t = lockTime

C21_Witness ==
    /\ Scheduled
    /\ lockedBeats = 1
    /\ lastBeatTime < time
    /\ nextScheduledBeat = Some(bpmSyncStartTime[1] + 2 * BeatInterval(detectedBPM[1]))


\* C22: once the stop function has been called from inside the callback, no
\* later step runs a frame (the engine state stays as it is) and no later
\* step invokes the callback
C22_StopInCallbackEndsLoop ==
    [][stopCalls >= 1 => (UNCHANGED engineVars /\ emitted' = Null)]_vars


\* C23: after a scheduled firing no scheduled time that the media time has
\* already passed is left to fire: the next scheduled beat lies after the
\* sampled media time, so a gap of several intervals gives one callback
C23_SkippedBeatsAreDropped ==
    Scheduled => nextScheduledBeat[1] > time


\* C24: while unlocked no tempo and no scheduled time is set; a detected
\* beat that leaves at least beatsToAnalyze beats in the buffer makes a lock
\* attempt, which leaves the session unlocked when fewer than 3 intervals
\* are within [0.25 s, 2.0 s], and each later detected beat makes a new one
\* (the session is locked after it exactly when calculateBPM gives a tempo)
C24_FailedAttemptRetries ==
    /\ ~bpmLocked => (detectedBPM = Null /\ nextScheduledBeat = Null /\ ~IsLocked)
    /\ (cfg.bpmSyncEnabled /\ Detected /\ Len(beatTimes) >= cfg.beatsToAnalyze) =>
          /\ Len(SelectSeq(Intervals(beatTimes), IsValidInterval)) < 3 => ~bpmLocked
          /\ bpmLocked <=> calculateBPM(cfg, beatTimes) # Null

C24_Witness ==
    /\ cfg.beatsToAnalyze = 4
    /\ Detected
    /\ confirmedBeats = 6
    /\ beatTimes[2] - beatTimes[1] > MaxValidInterval
    /\ beatTimes[3] - beatTimes[2] < MinValidInterval
    /\ Len(SelectSeq(Intervals(beatTimes), IsValidInterval)) = 3
    /\ bpmLocked


\* C25: a locked session has emitted at least beatsToAnalyze detected beats,
\* and a step that locks the session is a frame that emits a detected beat
C25_LockNeedsEnoughBeats ==
    /\ [](bpmLocked => confirmedBeats >= cfg.beatsToAnalyze)
    /\ [][(~bpmLocked /\ bpmLocked') =>
             (emitted' # Null /\ emitted'[1].mode = "detected"
                /\ confirmedBeats' = confirmedBeats + 1
                /\ confirmedBeats' >= cfg.beatsToAnalyze)]_vars

C25_Witness ==
    /\ cfg.beatsToAnalyze = 5
    /\ bpmLocked /\ IsLocked
    /\ Detected
    /\ confirmedBeats = 5


\* C26: while the history buffers hold fewer than 5 samples no callback is
\* invoked and none has been invoked before
C26_NoBeatDuringWarmup ==
    Len(fluxHistory) < 5 =>
        (emitted = Null /\ confirmedBeats = 0 /\ lockedBeats = 0)


\* C27: from a locked state every step keeps the tempo and the beat buffer,
\* and keeps nextScheduledBeat unless it is a scheduled firing, which adds
\* 60 / bpm to it, whatever media time the frame samples
C27_LockIsFrozen ==
    [][IsLocked =>
          /\ detectedBPM' = detectedBPM
          /\ beatTimes' = beatTimes
          /\ IF lockedBeats' = lockedBeats + 1
             THEN nextScheduledBeat' =
                    Some(nextScheduledBeat[1] + BeatInterval(detectedBPM[1]))
             ELSE nextScheduledBeat' = nextScheduledBeat]_vars

C27_Witness ==
    /\ IsLocked
    /\ Scheduled
    /\ ~monotone
    /\ nextScheduledBeat[1] <= time


\* C28: for every history of at least 5 values getAdaptiveThreshold returns
\* median + k x 1.4826 x MAD, MAD being the median of the absolute
\* deviations from the median and both medians the conventional one (the
\* mean of the two middle values for an even length)
C28_ThresholdByMedian ==
    (probe # Null /\ Len(fluxHistory) >= 5) =>
        LET m == Median(fluxHistory)
            \* |x - median| in units of 1 / m.d
            deviations == [i \in 1..Len(fluxHistory) |-> Abs(fluxHistory[i] * m.d - m.n)]
            mad == Median(deviations)
        IN  /\ probe[1].threshold.finite
            /\ probe[1].threshold.value * m.d * mad.d =
                  m.n * ThresholdScale * mad.d + cfg.energyThreshold * MadScale * mad.n


\* C30: the flux vote is false whenever the flux history, current value
\* included, holds fewer than 0.3 x historySize values, also when the flux
\* exceeds its threshold and is a local maximum
C30_FluxVoteNeedsFilledHistory ==
    (probe # Null /\ Len(fluxHistory) * 10 < cfg.historySize * 3) =>
        ~probe[1].vote.fluxBeat

C30_Witness ==
    /\ probe # Null
    /\ cfg.historySize = 20
    /\ Len(fluxHistory) = 5
    /\ Exceeds(CurrentOf(fluxHistory), probe[1].threshold, 10)
    /\ isLocalMaximum(CurrentOf(fluxHistory), fluxHistory, 3)
    /\ ~probe[1].vote.fluxBeat


\* the buffer s after one more value v arrived, kept to the last cap values
FifoAfter(s, v, cap) == LastN(Append(s, v), cap)

\* C29: every frame appends that frame's flux, intensity and bass energy to
\* the three history buffers and keeps the last historySize values of each in
\* arrival order, so that the three buffers always have the same length; the
\* same holds when the tempo is locked
C29_HistoriesAreFifo ==
    /\ [](/\ Len(fluxHistory) = Len(energyHistory)
          /\ Len(fluxHistory) = Len(bassEnergyHistory))
    /\ [][\E freqData \in Frames :
            LET sf == calculateSpectralFlux(freqData, prevFreqData)
                bassEnergy == getEnergyInRange(freqData, SubBassRange[1], BassRange[2])
            IN  /\ fluxHistory' = FifoAfter(fluxHistory, sf.flux, cfg.historySize)
                /\ energyHistory' = FifoAfter(energyHistory, sf.intensity, cfg.historySize)
                /\ bassEnergyHistory' =
                       FifoAfter(bassEnergyHistory, bassEnergy, cfg.historySize)]_vars

C29_Witness ==
    /\ IsLocked
    /\ lockedBeats >= 1
    /\ cfg.historySize = 2
    /\ Len(fluxHistory) = 2
    /\ fluxHistory[1] # fluxHistory[2]
    /\ energyHistory[1] # energyHistory[2]


\* C31: bpmLocked, detectedBPM and nextScheduledBeat are set together: in
\* every state either the flag is true and both values are set, or the flag
\* is false and both are null
C31_TempoFieldsAgree ==
    /\ bpmLocked <=> detectedBPM # Null
    /\ bpmLocked <=> nextScheduledBeat # Null

C31_Witness ==
    /\ bpmLocked /\ detectedBPM # Null /\ nextScheduledBeat # Null
    /\ Detected
    /\ lockedBeats = 0
    /\ emitted[1].outcome = "throws"


\* the intervals of the beat buffer that calculateBPM keeps
ValidIntervalsOf(bt) == SelectSeq(Intervals(bt), IsValidInterval)

\* C32: a tempo returned by calculateBPM lies in [60, 200] BPM, its beat
\* interval 60 / bpm in [0.3 s, 1.0 s]; every kept interval gives a raw tempo
\* in [30, 240] BPM, and a buffer of at least beatsToAnalyze beats with at
\* least three kept intervals always gets a tempo (the final reject is not
\* taken)
C32_LockedBpmInRange ==
    probe # Null =>
        /\ probe[1] # Null =>
              LET bpm == probe[1][1]
              IN  /\ BpmGeq(bpm, 60) /\ BpmLeq(bpm, 200)
                  /\ SixtySeconds * bpm.d * 10 >= 24 * bpm.n
                  /\ SixtySeconds * bpm.d <= 8 * bpm.n
        /\ \A i \in 1..Len(ValidIntervalsOf(beatTimes)) :
              LET raw == [n |-> SixtySeconds, d |-> ValidIntervalsOf(beatTimes)[i]]
              IN  BpmGeq(raw, 30) /\ BpmLeq(raw, 240)
        /\ (Len(beatTimes) >= cfg.beatsToAnalyze /\ Len(ValidIntervalsOf(beatTimes)) >= 3)
              => probe[1] # Null

\* a double-time tempo of 240 BPM was halved
C32_Witness ==
    /\ probe # Null /\ probe[1] # Null
    /\ Len(ValidIntervalsOf(beatTimes)) >= 3
    /\ MiddleOf(ValidIntervalsOf(beatTimes)) = MinValidInterval
    /\ probe[1][1].n = 120 * probe[1][1].d


\* C33: with minBeatSeparation >= 2.0 s the tempo never locks: every interval
\* between consecutive confirmed beats is longer than 2.0 s, so calculateBPM
\* keeps none of them
C33_SparseNeverLocks ==
    cfg.minBeatSeparation >= MaxValidInterval * 5 =>
        /\ ~bpmLocked /\ detectedBPM = Null /\ nextScheduledBeat = Null
        /\ \A i \in 1..(Len(beatTimes) - 1) : Intervals(beatTimes)[i] > MaxValidInterval
        /\ Len(ValidIntervalsOf(beatTimes)) = 0

C33_Witness ==
    /\ cfg.minBeatSeparation = MaxValidInterval * 5
    /\ confirmedBeats = MaxConfirmedBeats
    /\ Len(beatTimes) = BeatBufferCap
    /\ Intervals(beatTimes)[1] = MaxValidInterval + 1
    /\ ~bpmLocked


\* C34: a frame makes at most one onBeat call; the frame on which the tempo
\* locks makes only the detection-mode call, at the lock time; a scheduled
\* beat fires only on a later frame whose media time is at least
\* lockTime + 60 / bpm
C34_OneCallPerFrame ==
    /\ [][lockedBeats' + confirmedBeats' <= lockedBeats + confirmedBeats + 1]_vars
    /\ [][(~bpmLocked /\ bpmLocked') =>
            /\ Detected'
            /\ emitted'[1].t = bpmSyncStartTime'[1]
            /\ confirmedBeats' = confirmedBeats + 1
            /\ lockedBeats' = lockedBeats /\ lockedBeats = 0]_vars
    /\ [](Scheduled =>
            /\ bpmLocked
            /\ time >= bpmSyncStartTime[1] + BeatInterval(detectedBPM[1])
            /\ emitted[1].t >= bpmSyncStartTime[1] + BeatInterval(detectedBPM[1]))

\* the first scheduled beat, fired at exactly lockTime + 60 / bpm
C34_Witness ==
    /\ Scheduled
    /\ lockedBeats = 1
    /\ time = bpmSyncStartTime[1] + BeatInterval(detectedBPM[1])
    /\ emitted[1].t = time


\* C35: a scheduled beat fires only on a frame whose media time is at or past
\* the scheduled time it consumes; while the media time never decreases, the
\* number of scheduled beats fired by media time T is at most
\* (T - lockTime) / (60 / bpm)
C35_LockedBeatsBounded ==
    /\ [][Scheduled' => (nextScheduledBeat # Null /\ time' >= nextScheduledBeat[1]
                           /\ lastBeatTime' = nextScheduledBeat[1])]_vars
    /\ []((IsLocked /\ monotone) =>
            lockedBeats * BeatInterval(detectedBPM[1]) <= time - bpmSyncStartTime[1])

\* as many scheduled beats as the elapsed media time allows, two at least
C35_Witness ==
    /\ IsLocked
    /\ monotone
    /\ lockedBeats >= 2
    /\ lockedBeats * BeatInterval(detectedBPM[1]) = time - bpmSyncStartTime[1]


\* C36: once locked, while frames keep being served and the media keeps
\* playing, the schedule eventually passes the end of the media: every
\* scheduled time lockTime + k * (60 / bpm) within the media's duration is
\* eventually consumed, and by one callback only, as the schedule moves only
\* when a scheduled callback consumes the pending time, by one beat interval
C36_ScheduleIsConsumed ==
    /\ IsLocked ~> (IsLocked /\ nextScheduledBeat[1] > MaxPlayTime)
    /\ [][(IsLocked /\ nextScheduledBeat' # nextScheduledBeat) =>
            /\ Scheduled'
            /\ lastBeatTime' = nextScheduledBeat[1]
            /\ nextScheduledBeat' =
                  Some(nextScheduledBeat[1] + BeatInterval(detectedBPM[1]))
            /\ lockedBeats' = lockedBeats + 1]_vars
    /\ [](IsLocked => BeatInterval(detectedBPM[1]) > 0)

\* three scheduled times consumed, the last one late, by a frame sampled
\* after it, and the schedule now beyond the end of the media
C36_Witness ==
    /\ Scheduled
    /\ lockedBeats >= 3
    /\ lastBeatTime < time
    /\ nextScheduledBeat[1] > MaxPlayTime


C38_FluxOnlySeparation ==
    (~cfg.useOnsetDetection /\ ~cfg.useEnergySpikes) =>
        /\ Detected => emitted[1].votes = 1
        /\ (Detected /\ prevCallTime # Null) =>
              (emitted[1].t - prevCallTime[1]) * 10 > cfg.minBeatSeparation * 3
        /\ \A i \in 1..(Len(beatTimes) - 1) :
              Intervals(beatTimes)[i] * 10 > cfg.minBeatSeparation * 3

\* two consecutive flux beats as close as the guard and the time grid allow
C38_Witness ==
    /\ ~cfg.useOnsetDetection /\ ~cfg.useEnergySpikes
    /\ Detected /\ prevCallTime # Null
    /\ Len(beatTimes) >= 2
    /\ (emitted[1].t - prevCallTime[1]) * 10 <= cfg.minBeatSeparation * 3 + 20


RunningSessions == {i \in HandlerIds : sessions[i].state = "running"}

\* C39: at most one session of the app runs at any time, no session runs
\* once the component is unmounted, and no session started for an earlier
\* video runs after the video changed
C39_OneSessionAtATime ==
    /\ Cardinality(RunningSessions) <= 1
    /\ ~mounted => RunningSessions = {}
    /\ \A i \in RunningSessions : sessions[i].video = videoUrl

====
